---- MODULE Spec2Model ----
(***************************************************************************)
(* A model of mgrep (src/src/lib.rs, src/src/main.rs): Config::build and   *)
(* its three helpers, run, search and print_highlighted, as one sequential *)
(* process.                                                                *)
(*                                                                         *)
(* A Rust `String` is a sequence of characters; a character is written as  *)
(* a one-element name ("a", "\n", or a name such as "KELVIN" for a         *)
(* character outside ASCII).  Utf8Len gives the number of bytes of each    *)
(* character, so that lengths, positions and slices are byte offsets as    *)
(* they are in the code, and a slice off a character boundary panics.      *)
(***************************************************************************)
EXTENDS Integers, Sequences, FiniteSets, TLC

VARIABLES
    pc,          \* the position of the process in main / build / run
    args,        \* the command line while Config::build holds it
    env,         \* the state of the environment variable IGNORE_CASE
    query,       \* Config.query
    ignore_case, \* Config.ignore_case
    input,       \* Config.input
    stdinData,   \* what read_to_string consumed from standard input
    stdinRead,   \* whether standard input has been read
    contents,    \* run: the text that is searched
    results,     \* run: the lines search returned
    idx,         \* run: the index in results of the line being printed
    start,       \* print_highlighted: the cursor, a byte offset
    stdout,      \* everything written to standard output
    stderr,      \* the message written to the error stream
    exitCode     \* the exit code of the process, -1 while it runs

vars == <<pc, args, env, query, ignore_case, input, stdinData, stdinRead,
          contents, results, idx, start, stdout, stderr, exitCode>>

-----------------------------------------------------------------------------
(* Bounds of the model *)

\* the most tokens on the command line after the program name
MaxArgs == 3
\* the longest text standard input or a file holds, in characters
MaxText == 3
\* the longest text handed to search on its own, in characters
MaxContents == 3
\* the longest query handed to search and print_highlighted on their own
MaxQuery == 2
\* the longest line handed to print_highlighted on its own, in characters
MaxLine == 3
\* the most characters and markers written to standard output
MaxStdout == 24

-----------------------------------------------------------------------------
(* Characters and strings *)

\* Option::None of str::find
None == -1

\* U+212A KELVIN SIGN, U+03A3 / U+03C3 / U+03C2 the Greek sigmas,
\* U+0130 LATIN CAPITAL LETTER I WITH DOT ABOVE, U+0307 COMBINING DOT ABOVE
Utf8Len(c) ==
    CASE c = "KELVIN" -> 3
      [] c \in {"SIGMA", "sigma", "fsigma", "IDOT", "cdot"} -> 2
      [] OTHER -> 1

RECURSIVE ByteLen(_)
\* str::len: the length in bytes
ByteLen(s) == IF s = <<>> THEN 0 ELSE Utf8Len(Head(s)) + ByteLen(Tail(s))

\* the byte offset at which character k+1 of s begins
OffsetOf(s, k) == ByteLen(SubSeq(s, 1, k))

\* str::is_char_boundary
IsCharBoundary(s, i) == \E k \in 0..Len(s) : OffsetOf(s, k) = i

\* whether &s[i..j] is a slice; it panics otherwise
SliceOk(s, i, j) == i <= j /\ IsCharBoundary(s, i) /\ IsCharBoundary(s, j)

CharsBefore(s, i) == CHOOSE k \in 0..Len(s) : OffsetOf(s, k) = i

\* &s[i..j], for byte offsets i and j
Slice(s, i, j) == SubSeq(s, CharsBefore(s, i) + 1, CharsBefore(s, j))

\* the character positions (from 0) at which needle occurs in haystack
Occurrences(haystack, needle) ==
    {k \in 0..(Len(haystack) - Len(needle)) :
        SubSeq(haystack, k + 1, k + Len(needle)) = needle}

\* str::find: the byte offset of the first occurrence, or None
Find(haystack, needle) ==
    LET occ == Occurrences(haystack, needle)
    IN  IF occ = {} THEN None
        ELSE OffsetOf(haystack, CHOOSE k \in occ : \A j \in occ : k <= j)

\* str::contains
Contains(haystack, needle) == Find(haystack, needle) # None

\* the characters with the Unicode property Cased that the model uses
Cased ==
    {"a", "b", "c", "e", "f", "g", "h", "i", "k", "l", "n", "o", "p", "q",
     "r", "s", "u", "x", "A", "KELVIN", "IDOT", "SIGMA", "sigma", "fsigma"}

\* the characters with the Unicode property Case_Ignorable
CaseIgnorable == {"cdot", ".", "'", ":"}

RECURSIVE CaseIgnorableThenCased(_)
\* whether the first character that is not Case_Ignorable is Cased
CaseIgnorableThenCased(s) ==
    IF s = <<>> THEN FALSE
    ELSE IF Head(s) \in CaseIgnorable THEN CaseIgnorableThenCased(Tail(s))
    ELSE Head(s) \in Cased

Reverse(s) == [k \in 1..Len(s) |-> s[Len(s) + 1 - k]]

\* Final_Sigma: the capital sigma at position i ends a word
IsWordFinal(s, i) ==
    /\ CaseIgnorableThenCased(Reverse(SubSeq(s, 1, i - 1)))
    /\ ~CaseIgnorableThenCased(SubSeq(s, i + 1, Len(s)))

\* the lowercase of the character at position i of s
LowerAt(s, i) ==
    CASE s[i] = "A" -> <<"a">>
      [] s[i] = "KELVIN" -> <<"k">>
      [] s[i] = "IDOT" -> <<"i", "cdot">>
      [] s[i] = "SIGMA" -> IF IsWordFinal(s, i) THEN <<"fsigma">> ELSE <<"sigma">>
      [] OTHER -> <<s[i]>>

RECURSIVE LowerFrom(_, _)
LowerFrom(s, i) == IF i > Len(s) THEN <<>> ELSE LowerAt(s, i) \o LowerFrom(s, i + 1)

\* str::to_lowercase
ToLowercase(s) == LowerFrom(s, 1)

RECURSIVE TrimStartMatches(_, _)
TrimStartMatches(s, c) ==
    IF s # <<>> /\ Head(s) = c THEN TrimStartMatches(Tail(s), c) ELSE s

RECURSIVE TrimEndMatches(_, _)
TrimEndMatches(s, c) ==
    IF s # <<>> /\ s[Len(s)] = c THEN TrimEndMatches(SubSeq(s, 1, Len(s) - 1), c)
    ELSE s

\* a trim that removes one leading and one trailing c at most
TrimOneMatch(s, c) ==
    LET t == IF s # <<>> /\ Head(s) = c THEN Tail(s) ELSE s
    IN  IF t # <<>> /\ t[Len(t)] = c THEN SubSeq(t, 1, Len(t) - 1) ELSE t

\* str::trim_matches: every leading and every trailing c is removed
TrimMatches(s, c) == TrimEndMatches(TrimStartMatches(s, c), c)

RECURSIVE SplitInclusive(_, _)
\* str::split_inclusive: the pieces of s, each ending with its terminator c
SplitInclusive(s, c) ==
    IF s = <<>> THEN <<>>
    ELSE IF \E k \in 1..Len(s) : s[k] = c
         THEN LET k == CHOOSE j \in 1..Len(s) : s[j] = c /\ \A m \in 1..(j - 1) : s[m] # c
              IN  <<SubSeq(s, 1, k)>> \o SplitInclusive(SubSeq(s, k + 1, Len(s)), c)
         ELSE <<s>>

\* what str::lines does to one piece: a final "\n" and a "\r" before it go
StripLineEnding(piece) ==
    IF piece # <<>> /\ piece[Len(piece)] = "\n"
    THEN LET l == SubSeq(piece, 1, Len(piece) - 1)
         IN  IF l # <<>> /\ l[Len(l)] = "\r" THEN SubSeq(l, 1, Len(l) - 1) ELSE l
    ELSE piece

\* a split that keeps the empty piece after a final terminator
SplitKeepLast(s) ==
    LET p == SplitInclusive(s, "\n")
    IN  IF s # <<>> /\ s[Len(s)] = "\n" THEN p \o <<(<<>>)>> ELSE p

\* lines, had it split on "\n" as str::split does
LinesWithLast(s) ==
    LET p == SplitKeepLast(s) IN [k \in 1..Len(p) |-> StripLineEnding(p[k])]

\* str::lines
Lines(s) ==
    LET p == SplitInclusive(s, "\n") IN [k \in 1..Len(p) |-> StripLineEnding(p[k])]

\* every sequence over alphabet of length at most n
SeqsUpTo(alphabet, n) == UNION {[1..k -> alphabet] : k \in 0..n}

-----------------------------------------------------------------------------
(* The inputs of the model *)

\* env::args: the program name
ProgramName == <<"m", "g", "r", "e", "p">>

\* the tokens a command line is built from
Tokens ==
    {<<"-", "h">>,
     <<"-", "-", "h", "e", "l", "p">>,
     <<"-", "-", "h", "e", "l", "p", "f", "u", "l">>,
     <<"-", "i">>,
     <<"-", "-", "i", "g", "n", "o", "r", "e", "-", "c", "a", "s", "e">>,
     <<"-", "n", "i">>,
     <<"-", "-", "n", "o", "-", "i", "g", "n", "o", "r", "e", "-", "c", "a", "s", "e">>,
     <<"a">>,
     <<>>,
     <<"a", "/", "b">>,
     <<".", "\\", "p">>}

\* IGNORE_CASE: not set, set to "", set to "1", set to bytes that are not Unicode
EnvStates == {"UNSET", "EMPTY", "ONE", "NOT_UNICODE"}

\* the characters of the text on standard input and in a file
TextAlphabet == {"\"", "a", "A", "\n"}

\* what reading standard input or a file to a string gives: the text or an error
ReadOutcomes ==
    {[ok |-> TRUE, text |-> t] : t \in SeqsUpTo(TextAlphabet, MaxText)}
        \cup {[ok |-> FALSE, text |-> <<>>]}

-----------------------------------------------------------------------------
(* Config::build *)

NoInput == [kind |-> "None", val |-> <<>>]
FilePath(p) == [kind |-> "FilePath", val |-> p]
LiteralInput(t) == [kind |-> "LiteralInput", val |-> t]

\* Config::help_message
HelpMessage == "Usage: ..."

\* the SGR sequences "\x1b[31m" and "\x1b[0m"
SgrRed == "\\x1b[31m"
SgrReset == "\\x1b[0m"

MissingQuery == "Didn't get a query string"
IoError == "io::Error"

\* process::exit(1) in main and in get_query
ExitFailure == 1
\* main returns
ExitSuccess == 0
\* the exit code of a process whose main thread panicked
ExitPanic == 101

\* env::var("IGNORE_CASE").is_ok()
EnvVarIsOk(e) == e \in {"EMPTY", "ONE"}

\* main, had it not left the process with process::exit(1)
BuildFailedExitZero(err) ==
    /\ pc' = "exit"
    /\ stderr' = stderr \o <<(<<"Problem parsing arguments", err>>)>>
    /\ exitCode' = ExitSuccess

\* main: unwrap_or_else on the error of Config::build
BuildFailed(err) ==
    /\ pc' = "exit"
    /\ stderr' = stderr \o <<(<<"Problem parsing arguments", err>>)>>
    /\ exitCode' = ExitFailure

\* the query position holds a request for help (the else branch of get_query)
IsHelp(arg) ==
    ~(~Contains(arg, <<"-", "h">>) \/ ~Contains(arg, <<"-", "-", "h", "e", "l", "p">>))

\* build up to the end of get_query
GetQuery ==
    /\ pc = "build"
    /\ LET required_args == Tail(args)
       IN  IF required_args = <<>>
           THEN /\ BuildFailed(MissingQuery)
                /\ UNCHANGED <<query, stdout>>
           ELSE IF ~IsHelp(Head(required_args))
           THEN /\ query' = Head(required_args)
                /\ pc' = "get_ignore_case"
                /\ UNCHANGED <<stdout, stderr, exitCode>>
           ELSE /\ stdout' = stdout \o <<HelpMessage, "\n">>
                /\ pc' = "exit"
                /\ exitCode' = ExitFailure
                /\ UNCHANGED <<query, stderr>>
    /\ UNCHANGED <<args, env, ignore_case, input, stdinData, stdinRead,
                   contents, results, idx, start>>

IsIgnoreCaseFlag(arg) ==
    arg = <<"-", "i">>
        \/ arg = <<"-", "-", "i", "g", "n", "o", "r", "e", "-", "c", "a", "s", "e">>

IsNoIgnoreCaseFlag(arg) ==
    arg = <<"-", "n", "i">>
        \/ arg = <<"-", "-", "n", "o", "-", "i", "g", "n", "o", "r", "e", "-", "c", "a", "s", "e">>

\* Config::get_ignore_case
get_ignore_case(a, e) ==
    LET ignore_case_flag == \E k \in 1..Len(a) : IsIgnoreCaseFlag(a[k])
        no_ignore_case_flag == \E k \in 1..Len(a) : IsNoIgnoreCaseFlag(a[k])
    IN  IF no_ignore_case_flag THEN FALSE
        ELSE IF ignore_case_flag THEN TRUE
        ELSE EnvVarIsOk(e)

GetIgnoreCase ==
    /\ pc = "get_ignore_case"
    /\ ignore_case' = get_ignore_case(Tail(args), env)
    /\ pc' = "get_input"
    /\ UNCHANGED <<args, env, query, input, stdinData, stdinRead, contents,
                   results, idx, start, stdout, stderr, exitCode>>

\* the closure of get_input: the token looks like a path
IsPathLike(arg) == Contains(arg, <<"/">>) \/ Contains(arg, <<"\\">>)

\* get_input, had it removed a single pair of quotes
LiteralOfOnePair(text) == TrimOneMatch(text, "\"")

\* the text get_input makes of what standard input held
LiteralOf(text) == TrimMatches(text, "\"")

\* build from get_input to its return, where the arguments are dropped
GetInput ==
    /\ pc = "get_input"
    /\ LET required_args == Tail(args)
           found == {k \in 1..Len(required_args) : IsPathLike(required_args[k])}
       IN  IF found # {}
           THEN /\ input' = FilePath(required_args[CHOOSE k \in found : \A j \in found : k <= j])
                /\ pc' = "run"
                /\ args' = <<>>
                /\ UNCHANGED <<stdinData, stdinRead, stderr, exitCode>>
           ELSE \E r \in ReadOutcomes :
                    /\ stdinRead' = TRUE
                    /\ stdinData' = r.text
                    /\ IF r.ok
                       THEN /\ input' = LiteralInput(LiteralOf(r.text))
                            /\ pc' = "run"
                            /\ args' = <<>>
                            /\ UNCHANGED <<stderr, exitCode>>
                       ELSE /\ BuildFailed(IoError)
                            /\ UNCHANGED <<input, args>>
    /\ UNCHANGED <<env, query, ignore_case, contents, results, idx, start, stdout>>

-----------------------------------------------------------------------------
(* search *)

\* the line_filter of search, for the query as search has folded it
LineFilter(q, ic, line) ==
    IF ic THEN Contains(ToLowercase(line), ToLowercase(q)) ELSE Contains(line, q)

\* search
search(q, ic, c) ==
    LET folded == IF ic THEN ToLowercase(q) ELSE q
        line_filter(line) == LineFilter(folded, ic, line)
    IN  SelectSeq(Lines(c), line_filter)

-----------------------------------------------------------------------------
(* run and print_highlighted *)

\* a slice or a position that panicked
Panicked == -2

\* the process ends by a panic, having written out
Panic(out) ==
    /\ pc' = "exit"
    /\ exitCode' = ExitPanic
    /\ stdout' = out
    /\ UNCHANGED <<idx, start>>

\* run: the contents of the input, a file that is read here or the literal text
ReadContents ==
    /\ pc = "run"
    /\ IF input.kind = "FilePath"
       THEN \E r \in ReadOutcomes :
                IF r.ok
                THEN /\ contents' = r.text
                     /\ pc' = "search"
                     /\ UNCHANGED <<stderr, exitCode>>
                ELSE /\ pc' = "exit"
                     /\ stderr' = stderr \o <<(<<"Application error", IoError>>)>>
                     /\ exitCode' = ExitFailure
                     /\ UNCHANGED contents
       ELSE /\ contents' = input.val
            /\ pc' = "search"
            /\ UNCHANGED <<stderr, exitCode>>
    /\ UNCHANGED <<args, env, query, ignore_case, input, stdinData, stdinRead,
                   results, idx, start, stdout>>

\* run: the call of search
Search ==
    /\ pc = "search"
    /\ results' = search(query, ignore_case, contents)
    /\ idx' = 1
    /\ start' = 0
    /\ pc' = "print"
    /\ UNCHANGED <<args, env, query, ignore_case, input, stdinData, stdinRead,
                   contents, stdout, stderr, exitCode>>

\* print_highlighted: target_line and target_query
Target(ic, s) == IF ic THEN ToLowercase(s) ELSE s

\* print_highlighted: target_line[start..].find(&target_query)
WhileLet(q, ic, line, from) ==
    LET target_line == Target(ic, line)
    IN  IF ~SliceOk(target_line, from, ByteLen(target_line)) THEN Panicked
        ELSE Find(Slice(target_line, from, ByteLen(target_line)), Target(ic, q))

\* the cursor, had it been moved one byte too far
AdvanceOffByOne(from, position, query_len) == from + position + query_len + 1

\* print_highlighted: start += position + query_len
Advance(from, position, query_len) == from + position + query_len

\* print_highlighted: one turn of the loop, for the line results[idx]
PrintMatch ==
    /\ pc = "print"
    /\ idx <= Len(results)
    /\ Len(stdout) < MaxStdout
    /\ LET line == results[idx]
           query_len == ByteLen(query)
           position == WhileLet(query, ignore_case, line, start)
       IN  /\ position # None
           /\ IF position = Panicked
              THEN Panic(stdout)
              ELSE IF ~SliceOk(line, start, start + position)
              THEN Panic(stdout)
              ELSE IF ~SliceOk(line, start + position, start + position + query_len)
              THEN Panic(stdout \o Slice(line, start, start + position))
              ELSE /\ stdout' = stdout
                                  \o Slice(line, start, start + position)
                                  \o <<SgrRed>>
                                  \o Slice(line, start + position, start + position + query_len)
                                  \o <<SgrReset>>
                   /\ start' = Advance(start, position, query_len)
                   /\ UNCHANGED <<pc, idx, exitCode>>
    /\ UNCHANGED <<args, env, query, ignore_case, input, stdinData, stdinRead,
                   contents, results, stderr>>

\* print_highlighted: the loop is left and the rest of the line is printed
PrintRest ==
    /\ pc = "print"
    /\ idx <= Len(results)
    /\ LET line == results[idx]
       IN  /\ WhileLet(query, ignore_case, line, start) = None
           /\ IF SliceOk(line, start, ByteLen(line))
              THEN /\ stdout' = stdout \o Slice(line, start, ByteLen(line)) \o <<"\n">>
                   /\ idx' = idx + 1
                   /\ start' = 0
                   /\ UNCHANGED <<pc, exitCode>>
              ELSE Panic(stdout)
    /\ UNCHANGED <<args, env, query, ignore_case, input, stdinData, stdinRead,
                   contents, results, stderr>>

\* run returns Ok(()) and main returns
RunOk ==
    /\ pc = "print"
    /\ idx > Len(results)
    /\ pc' = "exit"
    /\ exitCode' = ExitSuccess
    /\ UNCHANGED <<args, env, query, ignore_case, input, stdinData, stdinRead,
                   contents, results, idx, start, stdout, stderr>>

-----------------------------------------------------------------------------
(* The process from its start *)

Init ==
    /\ pc = "build"
    /\ args \in {<<ProgramName>> \o t : t \in SeqsUpTo(Tokens, MaxArgs)}
    /\ env \in EnvStates
    /\ query = <<>>
    /\ ignore_case = FALSE
    /\ input = NoInput
    /\ stdinData = <<>>
    /\ stdinRead = FALSE
    /\ contents = <<>>
    /\ results = <<>>
    /\ idx = 0
    /\ start = 0
    /\ stdout = <<>>
    /\ stderr = <<>>
    /\ exitCode = -1

Next ==
    \/ GetQuery
    \/ GetIgnoreCase
    \/ GetInput
    \/ ReadContents
    \/ Search
    \/ PrintMatch
    \/ PrintRest
    \/ RunOk

Spec == Init /\ [][Next]_vars

-----------------------------------------------------------------------------
(* search on its own: run at the call of search, for any query and text *)

SearchAlphabet == {"a", "A", "SIGMA", "IDOT", "\n", "\r"}

QueryAlphabet == {"a", "A", "SIGMA", "IDOT"}

InitSearch ==
    /\ pc = "search"
    /\ args = <<>>
    /\ env = "UNSET"
    /\ query \in SeqsUpTo(QueryAlphabet, MaxQuery)
    /\ ignore_case \in BOOLEAN
    /\ input = FilePath(<<"a", "/", "b">>)
    /\ stdinData = <<>>
    /\ stdinRead = FALSE
    /\ contents \in SeqsUpTo(SearchAlphabet, MaxContents)
    /\ results = <<>>
    /\ idx = 0
    /\ start = 0
    /\ stdout = <<>>
    /\ stderr = <<>>
    /\ exitCode = -1

NextSearch == Search

SpecSearch == InitSearch /\ [][NextSearch]_vars

-----------------------------------------------------------------------------
(* print_highlighted on its own: run with one matching line to print *)

LineAlphabet == {"a", "A", "k", "KELVIN", "IDOT"}

InitHighlight ==
    /\ pc = "print"
    /\ args = <<>>
    /\ env = "UNSET"
    /\ query \in SeqsUpTo(LineAlphabet, MaxQuery)
    /\ ignore_case \in BOOLEAN
    /\ input = FilePath(<<"a", "/", "b">>)
    /\ stdinData = <<>>
    /\ stdinRead = FALSE
    /\ contents \in {l \o <<"\n">> : l \in SeqsUpTo(LineAlphabet, MaxLine)}
    /\ results = search(query, ignore_case, contents)
    /\ results # <<>>
    /\ idx = 1
    /\ start = 0
    /\ stdout = <<>>
    /\ stderr = <<>>
    /\ exitCode = -1

NextHighlight ==
    \/ PrintMatch
    \/ PrintRest
    \/ RunOk

SpecHighlight == InitHighlight /\ [][NextHighlight]_vars

-----------------------------------------------------------------------------
(* Properties *)

Range(s) == {s[k] : k \in 1..Len(s)}

Min(S) == CHOOSE k \in S : \A j \in S : k <= j

\* needle is a contiguous piece of haystack
IsSubstring(needle, haystack) ==
    \E i \in 1..(Len(haystack) + 1) : \E j \in (i - 1)..Len(haystack) :
        SubSeq(haystack, i, j) = needle

\* the fold the claims speak of: lowercase when ignore_case holds
Folded(ic, s) == IF ic THEN ToLowercase(s) ELSE s

\* the positions at which a line of text begins
LineStarts(text) == {k \in 1..Len(text) : k = 1 \/ text[k - 1] = "\n"}

\* the line of text that begins at position k, without its line break
LineFrom(text, k) ==
    LET feeds == {j \in k..Len(text) : text[j] = "\n"}
    IN  IF feeds = {} THEN SubSeq(text, k, Len(text))
        ELSE IF Min(feeds) > k /\ text[Min(feeds) - 1] = "\r"
        THEN SubSeq(text, k, Min(feeds) - 2)
        ELSE SubSeq(text, k, Min(feeds) - 1)

\* the n-th element of a set of numbers, in increasing order
Nth(S, n) == CHOOSE k \in S : Cardinality({j \in S : j < k}) = n - 1

\* C1: search returns exactly the lines of contents (split at line breaks, no
\* empty line for a final line break) whose fold contains the fold of the
\* query, in their order, once for each, in their original casing.
C1_SearchReturnsMatchingLines ==
    (pc = "print" /\ idx = 1 /\ start = 0 /\ stdout = <<>>) =>
        LET matching ==
                {k \in LineStarts(contents) :
                    IsSubstring(Folded(ignore_case, query),
                                Folded(ignore_case, LineFrom(contents, k)))}
        IN  /\ Len(results) = Cardinality(matching)
            /\ \A n \in 1..Len(results) :
                    results[n] = LineFrom(contents, Nth(matching, n))

\* two lines match a lower-case query, the upper-case one first and as it is
C1_Witness ==
    /\ pc = "print"
    /\ ignore_case
    /\ query = <<"a">>
    /\ contents = <<"A", "\n", "a">>
    /\ results = <<(<<"A">>), (<<"a">>)>>

\* C5: every line search returns with ignore_case false it returns with
\* ignore_case true as well, for the same query and text.
C5_InsensitiveIsSuperset ==
    (pc = "print" /\ ~ignore_case) =>
        \A n \in 1..Len(results) :
            results[n] \in Range(search(query, TRUE, contents))

\* the tokens that ask for help
HelpTokens == {<<"-", "h">>, <<"-", "-", "h", "e", "l", "p">>}

\* the help message is what the process wrote
HelpTaken == pc = "exit" /\ stdout = <<HelpMessage, "\n">>

\* C3: build takes the help path (the message is printed and the process
\* ends, with no input read and no search run) exactly when the token in the
\* query position is -h or --help; any other token is returned as the query.
C3_HelpExactlyForHelpTokens ==
    (pc # "build" /\ Len(args) >= 2) =>
        IF args[2] \in HelpTokens
        THEN HelpTaken /\ ~stdinRead /\ results = <<>>
        ELSE ~HelpTaken /\ query = args[2]

\* C2: ignore_case is false when -ni or --no-ignore-case is among the tokens
\* after the program name; otherwise true when -i or --ignore-case is;
\* otherwise true exactly when IGNORE_CASE is defined, whatever its value.
C2_IgnoreCasePrecedence ==
    pc = "get_input" =>
        LET tokens == Range(Tail(args))
        IN  ignore_case =
                IF tokens \cap {<<"-", "n", "i">>,
                                <<"-", "-", "n", "o", "-", "i", "g", "n", "o", "r", "e",
                                  "-", "c", "a", "s", "e">>} # {}
                THEN FALSE
                ELSE IF tokens \cap {<<"-", "i">>,
                                     <<"-", "-", "i", "g", "n", "o", "r", "e",
                                       "-", "c", "a", "s", "e">>} # {}
                THEN TRUE
                ELSE env # "UNSET"

\* a token holds a path separator
HasSeparator(token) == \E k \in 1..Len(token) : token[k] \in {"/", "\\"}

\* C4: the input is the first token after the program name and the query
\* token that holds / or \, and standard input is read, and is the literal
\* text, only when no such token holds one.
C4_InputFromTokensAfterQuery ==
    [][pc = "get_input" =>
        LET rest == Tail(Tail(args))
            paths == {k \in 1..Len(rest) : HasSeparator(rest[k])}
        IN  IF paths # {}
            THEN input' = FilePath(rest[Min(paths)]) /\ ~stdinRead'
            ELSE stdinRead' /\ (pc' = "exit" \/ input'.kind = "LiteralInput")]_vars

\* C6: when build fails or the file cannot be read the process ends with exit
\* code 1 and nothing has been written to standard output; with no query
\* token it ends so without standard input having been read.
C6_FailureBeforeOutput ==
    /\ stderr # <<>> => pc = "exit" /\ exitCode = 1 /\ stdout = <<>> /\ results = <<>>
    /\ (pc # "build" /\ Len(args) = 1) =>
            /\ stderr = <<(<<"Problem parsing arguments", MissingQuery>>)>>
            /\ ~stdinRead
    /\ (pc = "exit" /\ stderr = <<>>) => exitCode # 1 \/ HelpTaken

\* the named file could not be read
C6_Witness ==
    /\ pc = "exit"
    /\ input.kind = "FilePath"
    /\ stderr = <<(<<"Application error", IoError>>)>>
    /\ exitCode = 1

\* the output without its highlight markers
StripMarkers(out) == SelectSeq(out, LAMBDA c : c \notin {SgrRed, SgrReset})

\* C7: with ignore_case false and a query that is not empty and occurs in the
\* line, the output of print_highlighted without its markers is the line and
\* one line break.
C7_HighlightRoundTrip ==
    (pc = "exit" /\ ~ignore_case /\ query # <<>> /\ Len(results) = 1) =>
        /\ exitCode = 0
        /\ StripMarkers(stdout) = results[1] \o <<"\n">>

\* a line with two occurrences of the query and text between and after them
C7_Witness ==
    /\ pc = "exit"
    /\ ~ignore_case
    /\ query = <<"a">>
    /\ results = <<(<<"a", "k", "a">>)>>
    /\ stdout = <<SgrRed, "a", SgrReset, "k", SgrRed, "a", SgrReset, "\n">>

\* C8: with an empty query print_highlighted finds no occurrence: nothing
\* that is written to standard output is a highlight marker.
C8_EmptyQueryNoMarker ==
    query = <<>> =>
        /\ SgrRed \notin Range(stdout)
        /\ SgrReset \notin Range(stdout)
        /\ pc = "exit" => StripMarkers(stdout) = stdout

\* the spans of the output between a start marker and the next end marker
HighlightedSpans(out) ==
    {SubSeq(out, i + 1, j - 1) : <<i, j>> \in
        {p \in (1..Len(out)) \X (1..Len(out)) :
            /\ p[1] < p[2]
            /\ out[p[1]] = SgrRed
            /\ out[p[2]] = SgrReset
            /\ \A m \in (p[1] + 1)..(p[2] - 1) : out[m] # SgrReset}}

\* C9: with ignore_case true every highlighted span is a piece of the line
\* whose fold is the fold of the query, the output without its markers is
\* line text, and no slice of the line panics.
C9_HighlightedSpansMatch ==
    (ignore_case /\ pc \in {"print", "exit"} /\ Len(results) = 1) =>
        /\ exitCode # ExitPanic
        /\ \A span \in HighlightedSpans(stdout) :
                /\ ToLowercase(span) = ToLowercase(query)
                /\ IsSubstring(span, results[1])
        /\ pc = "exit" => StripMarkers(stdout) = results[1] \o <<"\n">>

\* text without its leading and its trailing quotes is what is searched
IsTrimmedOf(text, raw) ==
    \E i \in 1..(Len(raw) + 1) : \E j \in (i - 1)..Len(raw) :
        /\ text = SubSeq(raw, i, j)
        /\ \A k \in 1..(i - 1) : raw[k] = "\""
        /\ \A k \in (j + 1)..Len(raw) : raw[k] = "\""
        /\ text # <<>> => text[1] # "\"" /\ text[Len(text)] # "\""

\* C10 as amended: the literal text is standard input with every leading and
\* every trailing double quote removed, and nothing else.
C10_AllOuterQuotesRemoved ==
    input.kind = "LiteralInput" => IsTrimmedOf(input.val, stdinData)

\* two leading quotes are removed
C10_Witness ==
    /\ input.kind = "LiteralInput"
    /\ stdinData = <<"\"", "\"", "a">>
    /\ input.val = <<"a">>

\* C10: at most one leading and at most one trailing double quote are
\* removed; further ones remain in the literal text.
C10_OnePairRemoved ==
    input.kind = "LiteralInput" =>
        LET first == IF stdinData # <<>> /\ stdinData[1] = "\"" THEN 2 ELSE 1
            last == IF Len(stdinData) >= first /\ stdinData[Len(stdinData)] = "\""
                    THEN Len(stdinData) - 1 ELSE Len(stdinData)
        IN  input.val = SubSeq(stdinData, first, last)

====
